---- MODULE Spec2Model ----
(***************************************************************************)
(* Model of src/app.py: the review dashboard script.                       *)
(*                                                                         *)
(* The script is straight-line code that Streamlit runs from top to bottom *)
(* on every interaction: label every review, aggregate per                 *)
(* (product_title, domain), filter the summaries by the search widgets,    *)
(* render one card per remaining summary, answer the assistant's question. *)
(*                                                                         *)
(* Strings that the code inspects (titles, domains, queries) are sequences *)
(* of one-character strings, so that lower(), `in`, str.contains and the   *)
(* lexicographic order of groupby keys are computed, not assumed.          *)
(* Numbers are float64 values, computed bit for bit: a sign, a 53-bit       *)
(* mantissa and an exponent, every operation rounded to nearest (ties to   *)
(* even).  The mean of a group is the compensated sum of its values in row *)
(* order, divided by their number, as pandas' group_mean computes it.      *)
(*                                                                         *)
(* A cell of the CSV may be empty: read_csv turns it into NaN.  An empty   *)
(* title or domain cell is the empty text <<>>, a missing rating is NaN    *)
(* A rating cell may also hold text that is no number, which makes the     *)
(* whole rating column a column of strings.                                *)
(***************************************************************************)
EXTENDS Integers, Sequences, FiniteSets

VARIABLES
    raw_df,          \* rows [product_title, domain, rating] of the loaded CSV
    sentiment,       \* column raw_df["sentiment"], <<>> until it is built
    sentiment_score, \* column raw_df["sentiment_score"], <<>> until built
    product_df,      \* the per-product summary rows
    domain_filter,   \* value of the Category selectbox
    query,           \* value of the search text input
    filtered,        \* the summaries left after the two filters
    warning,         \* TRUE when "No matching products found." is shown
    cards,           \* the rendered cards, one per row of filtered
    user_q,          \* value of the assistant's text input
    subset,          \* the summaries the assistant ranks
    best,            \* <<>> or <<row>>: the recommended summary
    outcome,         \* "none" | "recommended" | the exception that ended the run
    pc               \* position of the script

vars == <<raw_df, sentiment, sentiment_score, product_df, domain_filter, query,
          filtered, warning, cards, user_q, subset, best, outcome, pc>>

\* Largest number of rows of the loaded table.
MaxRows == 3

----------------------------------------------------------------------------
\* Characters and strings

\* The characters of the model in code-point order.
Chars ==
    <<" ",
      "A", "B", "C", "D", "E", "F", "G", "H", "I", "J", "K", "L", "M",
      "N", "O", "P", "Q", "R", "S", "T", "U", "V", "W", "X", "Y", "Z",
      "a", "b", "c", "d", "e", "f", "g", "h", "i", "j", "k", "l", "m",
      "n", "o", "p", "q", "r", "s", "t", "u", "v", "w", "x", "y", "z">>

\* The position of every character in Chars.
CodePoint == [c \in {Chars[i] : i \in 1..Len(Chars)} |->
                 CHOOSE i \in 1..Len(Chars) : Chars[i] = c]

Ord(c) == CodePoint[c]

IsUpper(c) == Ord(c) >= Ord("A") /\ Ord(c) <= Ord("Z")

LowerChar(c) == IF IsUpper(c) THEN Chars[Ord(c) - Ord("A") + Ord("a")] ELSE c

\* str.lower()
lower(s) == [i \in 1..Len(s) |-> LowerChar(s[i])]

\* Python's `w in q` on strings: w is a contiguous substring of q.
StrIn(w, q) ==
    \E i \in 0..(Len(q) - Len(w)) : SubSeq(q, i + 1, i + Len(w)) = w

\* Python's < on strings: lexicographic by code point.
StrLess(a, b) ==
    \E i \in 1..(Len(b)) :
        /\ i <= Len(a) + 1
        /\ \A k \in 1..(i - 1) : a[k] = b[k]
        /\ \/ i = Len(a) + 1
           \/ (i <= Len(a) /\ Ord(a[i]) < Ord(b[i]))

Books == <<"B", "o", "o", "k", "s">>
Electronics == <<"E", "l", "e", "c", "t", "r", "o", "n", "i", "c", "s">>
Clothing == <<"C", "l", "o", "t", "h", "i", "n", "g">>
All == <<"A", "l", "l">>

----------------------------------------------------------------------------
\* Natural numbers of any size

\* A natural number is the sequence of its digits in base 2^LimbBits, the
\* lowest digit first and the highest digit not 0; <<>> is zero.
LimbBits == 20

RECURSIVE PowerOfTwo(_)
PowerOfTwo(k) == IF k = 0 THEN 1 ELSE 2 * PowerOfTwo(k - 1)

TwoTo == [k \in 0..LimbBits |-> PowerOfTwo(k)]

Limb == TwoTo[LimbBits]

Abs(n) == IF n < 0 THEN 0 - n ELSE n

RECURSIVE NTrim(_)
NTrim(x) ==
    IF x # <<>> /\ x[Len(x)] = 0 THEN NTrim(SubSeq(x, 1, Len(x) - 1)) ELSE x

RECURSIVE NFromInt(_)
NFromInt(n) == IF n = 0 THEN <<>> ELSE <<n % Limb>> \o NFromInt(n \div Limb)

Digit(x, i) == IF i >= 1 /\ i <= Len(x) THEN x[i] ELSE 0

RECURSIVE AddFrom(_, _, _, _)
AddFrom(x, y, i, carry) ==
    IF i > Len(x) /\ i > Len(y)
    THEN (IF carry = 0 THEN <<>> ELSE <<carry>>)
    ELSE LET s == Digit(x, i) + Digit(y, i) + carry
         IN  <<s % Limb>> \o AddFrom(x, y, i + 1, s \div Limb)

NAdd(x, y) == AddFrom(x, y, 1, 0)

RECURSIVE SubFrom(_, _, _, _)
SubFrom(x, y, i, borrow) ==
    IF i > Len(x) THEN <<>>
    ELSE LET d == Digit(x, i) - Digit(y, i) - borrow
         IN  <<(d + Limb) % Limb>> \o SubFrom(x, y, i + 1, IF d < 0 THEN 1 ELSE 0)

\* x - y for x >= y.
NSub(x, y) == NTrim(SubFrom(x, y, 1, 0))

RECURSIVE LessFrom(_, _, _)
LessFrom(x, y, i) ==
    IF i = 0 THEN FALSE
    ELSE IF x[i] # y[i] THEN x[i] < y[i]
    ELSE LessFrom(x, y, i - 1)

NLess(x, y) == IF Len(x) # Len(y) THEN Len(x) < Len(y) ELSE LessFrom(x, y, Len(x))

\* x * 2^k.
NShl(x, k) ==
    LET q == k \div LimbBits
        r == k % LimbBits
        cut == TwoTo[LimbBits - r]
    IN  NTrim([i \in 1..q |-> 0] \o
              [i \in 1..(Len(x) + 1) |->
                  (Digit(x, i) % cut) * TwoTo[r] + (Digit(x, i - 1) \div cut)])

\* x \div 2^k.
NShr(x, k) ==
    LET q == k \div LimbBits
        r == k % LimbBits
    IN  NTrim([i \in 1..(Len(x) - q) |->
                  (x[i + q] \div TwoTo[r])
                      + (Digit(x, i + q + 1) % TwoTo[r]) * TwoTo[LimbBits - r]])

\* The bit of x of weight 2^k.
NBit(x, k) == (Digit(x, (k \div LimbBits) + 1) \div TwoTo[k % LimbBits]) % 2

\* The k lowest bits of x are all 0.
NLowZero(x, k) == NShl(NShr(x, k), k) = x

RECURSIVE BitLen(_)
BitLen(n) == IF n = 0 THEN 0 ELSE 1 + BitLen(n \div 2)

\* The number of bits of x.
NBitLen(x) == IF x = <<>> THEN 0 ELSE LimbBits * (Len(x) - 1) + BitLen(x[Len(x)])

RECURSIVE MulFrom(_, _, _, _)
MulFrom(x, n, i, carry) ==
    IF i > Len(x) THEN NFromInt(carry)
    ELSE LET p == x[i] * n + carry
         IN  <<p % Limb>> \o MulFrom(x, n, i + 1, p \div Limb)

\* x * n for a small n (n < 2^10).
NMulSmall(x, n) == NTrim(MulFrom(x, n, 1, 0))

RECURSIVE DivFrom(_, _, _, _)
DivFrom(x, n, i, rem) ==
    IF i = 0 THEN [quot |-> <<>>, rem |-> rem]
    ELSE LET cur == rem * Limb + x[i]
             rest == DivFrom(x, n, i - 1, cur % n)
         IN  [quot |-> rest.quot \o <<cur \div n>>, rem |-> rest.rem]

\* Quotient and remainder of x by a small n (n < 2^10).
NDivSmall(x, n) ==
    LET d == DivFrom(x, n, Len(x), 0) IN [quot |-> NTrim(d.quot), rem |-> d.rem]

----------------------------------------------------------------------------
\* float64 (IEEE 754 binary64, round to nearest, ties to even)

\* A float that is a number is (-1)^neg * man * 2^exp with man = 0 (and
\* exp = 0, neg = FALSE) or 2^52 <= man < 2^53.  The exponents of the model
\* stay far from the ends of the range, so there is no overflow to infinity
\* and no subnormal number; the sign of zero is not kept (0.0 == -0.0).
Precision == 53

\* float('nan'): what read_csv makes of an empty cell, and the mean of none.
NaN == [nan |-> TRUE, neg |-> FALSE, man |-> <<>>, exp |-> 0]

Zero == [nan |-> FALSE, neg |-> FALSE, man |-> <<>>, exp |-> 0]

IsNaN(a) == a.nan

\* The float nearest to (-1)^neg * n * 2^e, the one of even man on a tie.
Round(neg, n, e) ==
    IF n = <<>> THEN Zero
    ELSE LET len == NBitLen(n)
         IN  IF len <= Precision
             THEN [nan |-> FALSE, neg |-> neg,
                   man |-> NShl(n, Precision - len), exp |-> e - (Precision - len)]
             ELSE LET drop == len - Precision
                      q == NShr(n, drop)
                      up == /\ NBit(n, drop - 1) = 1
                            /\ (~NLowZero(n, drop - 1) \/ NBit(q, 0) = 1)
                      q1 == IF up THEN NAdd(q, <<1>>) ELSE q
                  IN  IF NBitLen(q1) > Precision
                      THEN [nan |-> FALSE, neg |-> neg,
                            man |-> NShr(q1, 1), exp |-> e + drop + 1]
                      ELSE [nan |-> FALSE, neg |-> neg, man |-> q1, exp |-> e + drop]

\* The exact sum of two numbers: man need not fit the precision.
ExactAdd(a, b) ==
    LET e == IF a.exp < b.exp THEN a.exp ELSE b.exp
        x == NShl(a.man, a.exp - e)
        y == NShl(b.man, b.exp - e)
    IN  IF a.neg = b.neg THEN [neg |-> a.neg, man |-> NAdd(x, y), exp |-> e]
        ELSE IF NLess(x, y) THEN [neg |-> b.neg, man |-> NSub(y, x), exp |-> e]
        ELSE [neg |-> a.neg, man |-> NSub(x, y), exp |-> e]

Negate(a) == IF a.man = <<>> THEN a ELSE [a EXCEPT !.neg = ~a.neg]

\* a + b and a - b.
FloatAdd(a, b) ==
    IF IsNaN(a) \/ IsNaN(b) THEN NaN
    ELSE LET s == ExactAdd(a, b) IN Round(s.neg, s.man, s.exp)

FloatSub(a, b) == IF IsNaN(b) THEN NaN ELSE FloatAdd(a, Negate(b))

\* The number of bits a quotient is computed to before it is rounded.
QuotientBits == 64

\* a / n for an integer n > 0: the quotient to QuotientBits more bits, with
\* one more bit that is 1 when the division left a remainder.
FloatDivInt(a, n) ==
    IF IsNaN(a) THEN NaN
    ELSE LET d == NDivSmall(NShl(a.man, QuotientBits), n)
             sticky == IF d.rem = 0 THEN <<>> ELSE <<1>>
         IN  Round(a.neg, NAdd(NShl(d.quot, 1), sticky), a.exp - QuotientBits - 1)

\* float(n) for an integer n.
FromInt(n) == Round(n < 0, NFromInt(Abs(n)), 0)

\* The float that the text n/d of a CSV cell is read as (d a power of 10).
Float(n, d) == FloatDivInt(FromInt(n), d)

\* |a| < |b| for two numbers: by exponent, then by mantissa.
MagnitudeLess(a, b) ==
    IF b.man = <<>> THEN FALSE
    ELSE IF a.man = <<>> THEN TRUE
    ELSE a.exp < b.exp \/ (a.exp = b.exp /\ NLess(a.man, b.man))

\* a < b and a == b for two floats; False when one of them is NaN.
FloatLess(a, b) ==
    /\ ~IsNaN(a) /\ ~IsNaN(b)
    /\ IF a.neg # b.neg THEN a.neg
       ELSE IF a.neg THEN MagnitudeLess(b, a)
       ELSE MagnitudeLess(a, b)

FloatEqual(a, b) == ~IsNaN(a) /\ ~IsNaN(b) /\ a = b

\* The integer literals of the script as floats.
Literal == [n \in 0..4 |-> FromInt(n)]

\* The comparisons of a float with an integer literal; False on NaN.
FloatGE(a, n) == ~IsNaN(a) /\ ~FloatLess(a, Literal[n])
FloatLT(a, n) == FloatLess(a, Literal[n])
FloatEQ(a, n) == FloatEqual(a, Literal[n])

----------------------------------------------------------------------------
\* The inputs

Pen == <<"P", "e", "n">>
Cap == <<"C", "a", "p">>

\* 1.4 (no float64 is exactly 1.4), 3, 3.5 and 4.
Ratings == {Float(14, 10), Float(3, 1), Float(35, 10), Float(4, 1)}

\* An empty cell of a text column (read as NaN).
Missing == <<>>

\* A rating cell that holds text instead of a number.
TextRating == [text |-> <<"f", "i", "v", "e">>]

IsText(cell) == "text" \in DOMAIN cell

\* The rows of the CSV.  One product carries every rating and the missing
\* rating; the same title is sold in a second domain, rated the out-of-range
\* 0; a second title is sold in a third domain, rated 4 or not at all.
\* Then a row without a title and a row without a domain (one row of each
\* kind stands for all: the aggregation leaves such rows out whatever they
\* hold), and a row whose rating is no number.
ReviewRows ==
    [product_title : {Pen}, domain : {Books}, rating : Ratings \cup {NaN}]
        \cup [product_title : {Pen}, domain : {Electronics}, rating : {Float(0, 1)}]
        \cup [product_title : {Cap}, domain : {Clothing}, rating : {Float(4, 1), NaN}]
        \cup {[product_title |-> Missing, domain |-> Books, rating |-> Float(4, 1)],
              [product_title |-> Pen, domain |-> Missing, rating |-> Float(4, 1)],
              [product_title |-> Pen, domain |-> Books, rating |-> TextRating]}

\* The tables load_data() can return: up to MaxRows rows, in any order.
Tables == UNION {[1..n -> ReviewRows] : n \in 0..MaxRows}

\* The options of the Category selectbox.
CategoryOptions == {All, Books, Electronics, Clothing}

\* Texts typed into the search box (letters only: no regex metacharacters).
SearchQueries == {<<>>, <<"P", "E">>}

\* Questions typed into the assistant's box.
ChatQueries ==
    { <<>>,
      <<"M", "O", "B", "I", "L", "E">>,
      <<"P", "h", "o", "n", "e", " ", "B", "o", "o", "k">>,
      <<"g", "o", "o", "d", " ", "b", "o", "o", "k">>,
      <<"C", "l", "o", "t", "h">>,
      <<"s", "h", "i", "r", "t">>,
      <<"d", "r", "e", "s", "s">>,
      <<"h", "e", "l", "l", "o">> }

----------------------------------------------------------------------------
\* Sentiment labels (lines 57-62)

\* classify with the first threshold exclusive.
classifyStrict(r) ==
    IF FloatGE(r, 4) /\ ~FloatEQ(r, 4) THEN "Positive"
    ELSE IF FloatEQ(r, 3) THEN "Neutral"
    ELSE "Negative"

classify(r) ==
    IF FloatGE(r, 4) THEN "Positive"
    ELSE IF FloatEQ(r, 3) THEN "Neutral"
    ELSE "Negative"

sentiment_map == [l \in {"Positive", "Neutral", "Negative"} |->
                    IF l = "Positive" THEN 1 ELSE IF l = "Neutral" THEN 0 ELSE 0 - 1]

\* raw_df["rating"].apply(...)
SentimentColumn(df) == [i \in 1..Len(df) |-> classify(df[i].rating)]

\* raw_df["sentiment"].map(sentiment_map)
ScoreColumn(sent) == [i \in 1..Len(sent) |-> sentiment_map[sent[i]]]

----------------------------------------------------------------------------
\* Aggregation (lines 67-71)

KeyOf(row) == <<row.product_title, row.domain>>

\* Order of the group keys: by product_title, then by domain.
KeyLess(k1, k2) ==
    \/ StrLess(k1[1], k2[1])
    \/ (k1[1] = k2[1] /\ StrLess(k1[2], k2[2]))

\* groupby sorts the group keys in ascending order.
RECURSIVE SortKeys(_)
SortKeys(S) ==
    IF S = {} THEN <<>>
    ELSE LET m == CHOOSE k \in S : \A o \in S \ {k} : KeyLess(k, o)
         IN  <<m>> \o SortKeys(S \ {m})

\* The group keys: groupby (dropna=True) leaves out the rows that have NaN
\* in a key column.
GroupKeys(df) ==
    {KeyOf(df[i]) : i \in {k \in 1..Len(df) :
                              df[k].product_title # Missing /\ df[k].domain # Missing}}

\* The rows of df that belong to the group of key.
GroupIndex(df, key) == {i \in 1..Len(df) : KeyOf(df[i]) = key}

\* The values of a column on the rows idx, in row order.
RECURSIVE Pick(_, _, _)
Pick(col, idx, i) ==
    IF i > Len(col) THEN <<>>
    ELSE (IF i \in idx THEN <<col[i]>> ELSE <<>>) \o Pick(col, idx, i + 1)

\* The aggregation "first" in the place of "mean".
MeanFirst(s) == s[1]

\* The values of a column that are not NaN.
NotNa(s) == SelectSeq(s, LAMBDA v : ~IsNaN(v))

\* The sum of s[i], s[i+1], ... on top of sumx, in this order, by Kahan's
\* compensated summation as the groupby kernel of "mean" does it: comp is the
\* rounding error of the additions so far (it is never NaN here: no sum
\* is infinite).
RECURSIVE KahanSum(_, _, _, _)
KahanSum(s, i, sumx, comp) ==
    IF i > Len(s) THEN sumx
    ELSE LET y == FloatSub(s[i], comp)
             t == FloatAdd(sumx, y)
         IN  KahanSum(s, i + 1, t, FloatSub(FloatSub(t, sumx), y))

\* The aggregation "mean": the sum of the values that are not NaN divided by
\* their number, NaN when there is none.
Mean(s) ==
    IF NotNa(s) = <<>> THEN NaN
    ELSE FloatDivInt(KahanSum(NotNa(s), 1, Zero, Zero), Len(NotNa(s)))

\* The aggregation "count": the number of values that are not NaN.
Count(s) == Len(NotNa(s))

RatingColumn(df) == [i \in 1..Len(df) |-> df[i].rating]

\* The int64 score column as float64.
AsFloats(col) == [i \in 1..Len(col) |-> FromInt(col[i])]

\* raw_df.groupby(["product_title", "domain"]).agg(...).reset_index()
GroupByAgg(df, score) ==
    LET keys == SortKeys(GroupKeys(df))
    IN  [j \in 1..Len(keys) |->
            LET idx == GroupIndex(df, keys[j])
            IN  [product_title |-> keys[j][1],
                 domain |-> keys[j][2],
                 avg_rating |-> Mean(Pick(RatingColumn(df), idx, 1)),
                 review_count |-> Count(Pick(RatingColumn(df), idx, 1)),
                 avg_sentiment_score |-> Mean(AsFloats(Pick(score, idx, 1)))]]

----------------------------------------------------------------------------
\* Search and cards (lines 91-183)

\* filtered[filtered["domain"] == domain_filter]
FilterDomain(df, d) == SelectSeq(df, LAMBDA row : row.domain = d)

\* str.contains(query, case=False) for a query of letters and blanks.
FilterTitle(df, qy) ==
    SelectSeq(df, LAMBDA row : StrIn(lower(qy), lower(row.product_title)))

SearchFilter(df, d, qy) ==
    LET byDomain == IF d # All THEN FilterDomain(df, d) ELSE df
    IN  IF qy # <<>> THEN FilterTitle(byDomain, qy) ELSE byDomain

\* The badges the buying guide shows for a row, in order.
BuyingGuide(avg) ==
    IF FloatGE(avg, 4) THEN <<"Must Buy">>
    ELSE IF FloatLT(avg, 3) THEN <<"Avoid">>
    ELSE <<"Think Again">>

\* raw_df[raw_df["product_title"] == row["product_title"]]
ProductReviews(df, row) ==
    {i \in 1..Len(df) : df[i].product_title = row.product_title}

\* (product_reviews["sentiment"] == label).sum()
SentimentCount(sent, idx, label) == Cardinality({i \in idx : sent[i] = label})

\* What one pass of the loop body renders for row (the rounded rating metric
\* and the charts' colours are left out: they repeat these values).
Card(df, sent, row) ==
    LET reviews == ProductReviews(df, row)
    IN  [product_title |-> row.product_title,
         review_count |-> row.review_count,
         meter_val |-> FloatDivInt(FloatAdd(row.avg_sentiment_score, Literal[1]), 2),
         badges |-> BuyingGuide(row.avg_rating),
         pos |-> SentimentCount(sent, reviews, "Positive"),
         neu |-> SentimentCount(sent, reviews, "Neutral"),
         neg |-> SentimentCount(sent, reviews, "Negative")]

----------------------------------------------------------------------------
\* The assistant (lines 196-208)

Phone == <<"p", "h", "o", "n", "e">>
Mobile == <<"m", "o", "b", "i", "l", "e">>
Book == <<"b", "o", "o", "k">>
Cloth == <<"c", "l", "o", "t", "h">>
Shirt == <<"s", "h", "i", "r", "t">>
Dress == <<"d", "r", "e", "s", "s">>

\* The chain with the "book" rule tested before the "phone"/"mobile" rule.
ChatSubsetBookFirst(df, q) ==
    IF StrIn(Book, q) THEN FilterDomain(df, Books)
    ELSE IF StrIn(Phone, q) \/ StrIn(Mobile, q) THEN FilterDomain(df, Electronics)
    ELSE IF StrIn(Cloth, q) \/ StrIn(Shirt, q) \/ StrIn(Dress, q)
         THEN FilterDomain(df, Clothing)
    ELSE df

\* The chain without its final else: an unmatched question keeps the
\* Clothing subset.
ChatSubsetNoDefault(df, q) ==
    IF StrIn(Phone, q) \/ StrIn(Mobile, q) THEN FilterDomain(df, Electronics)
    ELSE IF StrIn(Book, q) THEN FilterDomain(df, Books)
    ELSE FilterDomain(df, Clothing)

\* The if/elif chain on q = user_q.lower().
ChatSubset(df, q) ==
    IF StrIn(Phone, q) \/ StrIn(Mobile, q) THEN FilterDomain(df, Electronics)
    ELSE IF StrIn(Book, q) THEN FilterDomain(df, Books)
    ELSE IF StrIn(Cloth, q) \/ StrIn(Shirt, q) \/ StrIn(Dress, q)
         THEN FilterDomain(df, Clothing)
    ELSE df

IndexPermutations(n) == {f \in [1..n -> 1..n] : \A i, j \in 1..n : f[i] = f[j] => i = j}

\* Whether a may precede b in sort_values("avg_rating", ascending=False):
\* NaN goes last (na_position="last").
SortsBefore(a, b) ==
    \/ IsNaN(b.avg_rating)
    \/ (~IsNaN(a.avg_rating) /\ ~FloatLess(a.avg_rating, b.avg_rating))

\* sort_values("avg_rating", ascending=False): the default sort is not
\* stable, so rows of equal avg_rating (or of none) may come out in any order.
SortValuesDesc(df) ==
    {s \in {[i \in 1..Len(df) |-> df[p[i]]] : p \in IndexPermutations(Len(df))} :
        \A i, j \in 1..Len(df) : i < j => SortsBefore(s[i], s[j])}

----------------------------------------------------------------------------
\* The script

Init ==
    /\ raw_df \in Tables
    /\ sentiment = <<>>
    /\ sentiment_score = <<>>
    /\ product_df = <<>>
    /\ domain_filter = All
    /\ query = <<>>
    /\ filtered = <<>>
    /\ warning = FALSE
    /\ cards = <<>>
    /\ user_q = <<>>
    /\ subset = <<>>
    /\ best = <<>>
    /\ outcome = "none"
    /\ pc = "sentiment"

\* The rating column holds strings: some cell of it is no number.
TextColumn(df) == \E i \in 1..Len(df) : IsText(df[i].rating)

\* Lines 57-62: the two derived columns.  On a column of strings the
\* lambda's r >= 4 raises TypeError, which ends the run.
BuildSentiment ==
    /\ pc = "sentiment"
    /\ IF TextColumn(raw_df)
       THEN /\ outcome' = "TypeError"
            /\ pc' = "crashed"
            /\ UNCHANGED <<sentiment, sentiment_score>>
       ELSE /\ sentiment' = SentimentColumn(raw_df)
            /\ sentiment_score' = ScoreColumn(SentimentColumn(raw_df))
            /\ pc' = "aggregate"
            /\ UNCHANGED outcome
    /\ UNCHANGED <<raw_df, product_df, domain_filter, query, filtered, warning,
                   cards, user_q, subset, best>>

\* Lines 67-71: the summary table.
Aggregate ==
    /\ pc = "aggregate"
    /\ product_df' = GroupByAgg(raw_df, sentiment_score)
    /\ pc' = "search"
    /\ UNCHANGED <<raw_df, sentiment, sentiment_score, domain_filter, query,
                   filtered, warning, cards, user_q, subset, best, outcome>>

\* The product_title column is a float column: the table has rows and every
\* title cell is empty, so read_csv found no text in the column.
FloatTitles(df) ==
    df # <<>> /\ \A i \in 1..Len(df) : df[i].product_title = Missing

\* Lines 83-97: the two widgets and the filters.  The .str accessor of a
\* float column raises AttributeError, which ends the run.
Search ==
    /\ pc = "search"
    /\ \E d \in CategoryOptions, qy \in SearchQueries :
        /\ domain_filter' = d
        /\ query' = qy
        /\ IF qy # <<>> /\ FloatTitles(raw_df)
           THEN /\ filtered' = SearchFilter(product_df, d, <<>>)
                /\ outcome' = "AttributeError"
                /\ pc' = "crashed"
           ELSE /\ filtered' = SearchFilter(product_df, d, qy)
                /\ pc' = "results"
                /\ UNCHANGED outcome
    /\ UNCHANGED <<raw_df, sentiment, sentiment_score, product_df, warning,
                   cards, user_q, subset, best>>

\* Lines 104-183: the warning, or one card per row of filtered.
Results ==
    /\ pc = "results"
    /\ IF filtered = <<>>
       THEN warning' = TRUE /\ cards' = <<>>
       ELSE /\ warning' = FALSE
            /\ cards' = [i \in 1..Len(filtered) |-> Card(raw_df, sentiment, filtered[i])]
    /\ pc' = "chatbot"
    /\ UNCHANGED <<raw_df, sentiment, sentiment_score, product_df, domain_filter,
                   query, filtered, user_q, subset, best, outcome>>

\* Lines 191-208: the assistant.  An empty subset makes .iloc[0] raise
\* IndexError, which ends the run.
Chatbot ==
    /\ pc = "chatbot"
    /\ \E uq \in ChatQueries :
        /\ user_q' = uq
        /\ IF uq = <<>>
           THEN /\ UNCHANGED <<subset, best, outcome>>
                /\ pc' = "done"
           ELSE LET sub == ChatSubset(product_df, lower(uq))
                IN  /\ subset' = sub
                    /\ IF sub = <<>>
                       THEN /\ best' = <<>>
                            /\ outcome' = "IndexError"
                            /\ pc' = "crashed"
                       ELSE /\ \E s \in SortValuesDesc(sub) : best' = <<s[1]>>
                            /\ outcome' = "recommended"
                            /\ pc' = "done"
    /\ UNCHANGED <<raw_df, sentiment, sentiment_score, product_df, domain_filter,
                   query, filtered, warning, cards>>

\* A widget changes: Streamlit runs the script again from the top, on a
\* fresh copy of the cached table.
Rerun ==
    /\ pc \in {"done", "crashed"}
    /\ sentiment' = <<>>
    /\ sentiment_score' = <<>>
    /\ product_df' = <<>>
    /\ domain_filter' = All
    /\ query' = <<>>
    /\ filtered' = <<>>
    /\ warning' = FALSE
    /\ cards' = <<>>
    /\ user_q' = <<>>
    /\ subset' = <<>>
    /\ best' = <<>>
    /\ outcome' = "none"
    /\ pc' = "sentiment"
    /\ UNCHANGED raw_df

Next ==
    \/ BuildSentiment
    \/ Aggregate
    \/ Search
    \/ Results
    \/ Chatbot
    \/ Rerun

Spec == Init /\ [][Next]_vars

----------------------------------------------------------------------------
\* Properties

\* The sentiment columns have been built.
Labelled ==
    \/ pc \in {"aggregate", "search", "results", "chatbot", "done"}
    \/ (pc = "crashed" /\ outcome # "TypeError")

\* product_df holds the summaries of raw_df.
Aggregated ==
    \/ pc \in {"search", "results", "chatbot", "done"}
    \/ (pc = "crashed" /\ outcome \in {"AttributeError", "IndexError"})

\* The cards have been rendered.
Rendered ==
    \/ pc \in {"chatbot", "done"}
    \/ (pc = "crashed" /\ outcome = "IndexError")

\* The assistant has handled the question user_q.
Asked == pc = "done" \/ (pc = "crashed" /\ outcome = "IndexError")

RowsOf(df) == {df[i] : i \in 1..Len(df)}

\* A number is there: it is not NaN.
Defined(a) == ~a.nan

\* a >= n, a < n, a = n for a number a and an integer n; false when a is not
\* a number.
AtLeast(a, n) == Defined(a) /\ ~FloatLess(a, Literal[n])
Below(a, n) == Defined(a) /\ FloatLess(a, Literal[n])
Exactly(a, n) == Defined(a) /\ FloatEqual(a, Literal[n])

\* a >= b and a > b for two numbers; false when one of them is not a number.
NoLess(a, b) == Defined(a) /\ Defined(b) /\ ~FloatLess(a, b)
Greater(a, b) == Defined(a) /\ Defined(b) /\ FloatLess(b, a)

\* The raw rows that have the key of a summary row.
ReviewsOf(row) ==
    {i \in 1..Len(raw_df) :
        /\ raw_df[i].product_title = row.product_title
        /\ raw_df[i].domain = row.domain}

RECURSIVE SetSum(_, _)
SetSum(f, S) ==
    IF S = {} THEN 0
    ELSE LET x == CHOOSE y \in S : TRUE IN f[x] + SetSum(f, S \ {x})

\* C1: every review belongs to exactly one summary, the one with its
\* (product_title, domain); each review_count is the number of raw rows with
\* the summary's key and is at least 1; the review_counts add up to the
\* number of raw rows.
C1_EveryReviewInExactlyOneSummary ==
    Aggregated =>
        /\ \A i \in 1..Len(raw_df) :
            Cardinality({j \in 1..Len(product_df) : i \in ReviewsOf(product_df[j])}) = 1
        /\ \A j \in 1..Len(product_df) :
            /\ product_df[j].review_count = Cardinality(ReviewsOf(product_df[j]))
            /\ product_df[j].review_count >= 1
        /\ SetSum([j \in 1..Len(product_df) |-> product_df[j].review_count],
                  1..Len(product_df)) = Len(raw_df)

\* The exact sum of the numbers f[i], i in S (a NaN counts as 0).
RECURSIVE ExactSum(_, _)
ExactSum(f, S) ==
    IF S = {} THEN Zero
    ELSE LET x == CHOOSE y \in S : TRUE IN ExactAdd(f[x], ExactSum(f, S \ {x}))

\* The exact product of a number and a natural number.
Times(a, n) == [neg |-> a.neg, man |-> NMulSmall(a.man, n), exp |-> a.exp]

\* |a - b| <= n * 1e-9, exactly: |a - b| * 10^9 <= n.
Within(a, b, n) ==
    LET d == ExactAdd(a, Negate(b))
        scaled == [neg |-> FALSE,
                   man |-> NMulSmall(NMulSmall(NMulSmall(d.man, 1000), 1000), 1000),
                   exp |-> d.exp]
        over == ExactAdd(scaled, [neg |-> TRUE, man |-> NFromInt(n), exp |-> 0])
    IN  over.man = <<>> \/ over.neg

\* The score of a label, as the specification words it.
LabelScore(l) ==
    CASE l = "Positive" -> 1
      [] l = "Neutral" -> 0
      [] l = "Negative" -> 0 - 1

\* C2: avg_rating * review_count is the sum of the group's ratings (of those
\* that are there) and avg_sentiment_score * review_count is the sum of the
\* scores (+1, 0, -1) of the labels of the group's reviews; each mean is
\* within the tolerance 1e-9 that the specification grants floating point.
C2_MeansOfGroup ==
    Aggregated =>
        \A j \in 1..Len(product_df) :
            LET row == product_df[j]
                ratings == [i \in 1..Len(raw_df) |-> raw_df[i].rating]
                scores == [i \in 1..Len(raw_df) |-> LabelScore(sentiment[i])]
            IN  /\ Within(Times(row.avg_rating, row.review_count),
                          ExactSum(ratings, ReviewsOf(row)), row.review_count)
                /\ Within(Times(row.avg_sentiment_score, row.review_count),
                          FromInt(SetSum(scores, ReviewsOf(row))), row.review_count)

\* C3 as stated: Positive iff r >= 4, Neutral iff r = 3, Negative iff r < 3.
C3_NegativeIffBelowThree ==
    Labelled =>
        \A i \in 1..Len(raw_df) :
            LET r == raw_df[i].rating
            IN  /\ (sentiment[i] = "Positive") <=> AtLeast(r, 4)
                /\ (sentiment[i] = "Neutral") <=> Exactly(r, 3)
                /\ (sentiment[i] = "Negative") <=> Below(r, 3)

\* C3 (amended): Positive iff r >= 4, Neutral iff r = 3, Negative in every
\* other case: r < 3, 3 < r < 4, or the rating is missing; two reviews of the
\* same rating have the same label, whatever their domains and titles.
C3_LabelFromRating ==
    Labelled =>
        /\ Len(sentiment) = Len(raw_df)
        /\ \A i \in 1..Len(raw_df) :
            LET r == raw_df[i].rating
            IN  /\ (sentiment[i] = "Positive") <=> AtLeast(r, 4)
                /\ (sentiment[i] = "Neutral") <=> Exactly(r, 3)
                /\ (sentiment[i] = "Negative") <=>
                      \/ Below(r, 3)
                      \/ (Below(r, 4) /\ ~Exactly(r, 3) /\ ~Below(r, 3))
                      \/ ~Defined(r)
        /\ \A i, j \in 1..Len(raw_df) :
            raw_df[i].rating = raw_df[j].rating => sentiment[i] = sentiment[j]

\* A review rated exactly 4 and a review rated 3.5 in another domain were
\* labelled.
C3_Witness ==
    /\ Labelled
    /\ \E i, j \in 1..Len(raw_df) :
        /\ raw_df[i].rating = Float(4, 1) /\ sentiment[i] = "Positive"
        /\ raw_df[j].rating = Float(35, 10) /\ sentiment[j] = "Negative"
        /\ raw_df[i].domain # raw_df[j].domain

\* C4: a question whose subset is empty ends in NotFound and not in a crash.
C4_EmptySubsetIsNotFound ==
    (Asked /\ user_q # <<>> /\ subset = <<>>) =>
        (outcome = "NotFound" /\ pc # "crashed")

\* c is the lower-case letter l or its capital.
SameLetter(c, l) == c = l \/ Ord(c) + (Ord("a") - Ord("A")) = Ord(l)

\* The text q contains the lower-case word w, whatever the case of q.
Mentions(q, w) ==
    \E i \in 0..(Len(q) - Len(w)) : \A k \in 1..Len(w) : SameLetter(q[i + k], w[k])

\* The category of a question by the ordered rule table, <<>> for no filter.
Category(q) ==
    CASE Mentions(q, Phone) \/ Mentions(q, Mobile) -> Electronics
      [] ~(Mentions(q, Phone) \/ Mentions(q, Mobile)) /\ Mentions(q, Book) -> Books
      [] /\ ~(Mentions(q, Phone) \/ Mentions(q, Mobile))
         /\ ~Mentions(q, Book)
         /\ (Mentions(q, Cloth) \/ Mentions(q, Shirt) \/ Mentions(q, Dress)) -> Clothing
      [] OTHER -> <<>>

\* C5: the subset of a question is the summaries of its category (all of
\* them when no rule matches), and a recommended product has the category's
\* domain.
C5_CategoryByFirstRule ==
    (Asked /\ user_q # <<>>) =>
        LET cat == Category(user_q)
        IN  /\ RowsOf(subset) =
                  {r \in RowsOf(product_df) : cat = <<>> \/ r.domain = cat}
            /\ (cat # <<>> /\ best # <<>>) => best[1].domain = cat

\* "Phone Book" was asked with Books and Electronics summaries in the table,
\* and an Electronics product was recommended.
C5_Witness ==
    /\ Asked
    /\ user_q = <<"P", "h", "o", "n", "e", " ", "B", "o", "o", "k">>
    /\ \E r \in RowsOf(product_df) : r.domain = Books
    /\ \E r \in RowsOf(product_df) : r.domain = Electronics
    /\ outcome = "recommended"
    /\ best[1].domain = Electronics

\* C6: with a non-empty subset, the recommended product is a row of the
\* subset whose avg_rating is greater than or equal to the avg_rating of
\* every other row of the subset.
C6_BestHasMaxRating ==
    (Asked /\ user_q # <<>> /\ subset # <<>>) =>
        /\ Len(best) = 1
        /\ best[1] \in RowsOf(subset)
        /\ \A r \in RowsOf(subset) \ {best[1]} :
            NoLess(best[1].avg_rating, r.avg_rating)

\* C7 as stated: the empty question against a non-empty table returns the
\* summary of the greatest avg_rating of all domains.
C7_EmptyQueryReturnsGlobalMax ==
    (pc = "done" /\ user_q = <<>> /\ product_df # <<>>) =>
        /\ Len(best) = 1
        /\ best[1] \in RowsOf(product_df)
        /\ \A r \in RowsOf(product_df) \ {best[1]} :
            NoLess(best[1].avg_rating, r.avg_rating)

\* b is a row of rows that no row exceeds in avg_rating, and its avg_rating
\* is a number whenever that of some row is.
IsTopRated(b, rows) ==
    /\ b \in rows
    /\ \A r \in rows : ~Greater(r.avg_rating, b.avg_rating)
    /\ (\E r \in rows : Defined(r.avg_rating)) => Defined(b.avg_rating)

\* C7 (amended): the empty question produces no recommendation at all; a
\* non-empty question that no rule matches, against a non-empty table,
\* returns a summary that no summary of any domain exceeds in avg_rating
\* (summaries without an avg_rating rank last).
C7_UnmatchedQueryReturnsGlobalMax ==
    Asked =>
        /\ user_q = <<>> => (best = <<>> /\ subset = <<>> /\ outcome = "none")
        /\ (user_q # <<>> /\ Category(user_q) = <<>> /\ product_df # <<>>) =>
            /\ outcome = "recommended"
            /\ Len(best) = 1
            /\ IsTopRated(best[1], RowsOf(product_df))

\* "hello" was asked against summaries of two domains, none of them
\* Clothing, and the better one was recommended.
C7_Witness ==
    /\ Asked
    /\ user_q = <<"h", "e", "l", "l", "o">>
    /\ Len(product_df) = 2
    /\ product_df[1].domain # product_df[2].domain
    /\ \A r \in RowsOf(product_df) : r.domain # Clothing
    /\ Greater(product_df[1].avg_rating, product_df[2].avg_rating)
    /\ outcome = "recommended"
    /\ best = <<product_df[1]>>

\* The function f; comparing it with itself makes the model checker compute
\* it once, as a table.
Tabulated(f) == IF f = f THEN f ELSE f

\* The summaries of every table whose rating column holds no text.
Summaries ==
    Tabulated([df \in {t \in Tables : ~TextColumn(t)} |->
                  GroupByAgg(df, ScoreColumn(SentimentColumn(df)))])

\* The summaries of the raw rows taken in the order p.
Reordered(p) == Summaries[[i \in 1..Len(raw_df) |-> raw_df[p[i]]]]

SameSummary(a, b) ==
    /\ a.product_title = b.product_title
    /\ a.domain = b.domain
    /\ a.review_count = b.review_count
    /\ a.avg_sentiment_score = b.avg_sentiment_score
    /\ Defined(a.avg_rating) <=> Defined(b.avg_rating)
    /\ Defined(a.avg_rating) =>
          (a.avg_rating = b.avg_rating \/ Within(a.avg_rating, b.avg_rating, 1))

C9_OneTierFromAvgRating ==
    Rendered =>
        /\ Len(cards) = Len(filtered)
        /\ \A i \in 1..Len(cards) :
            LET a == filtered[i].avg_rating
                shown == cards[i].badges
            IN  /\ Len(shown) = 1
                /\ (shown[1] = "Must Buy") <=> AtLeast(a, 4)
                /\ (shown[1] = "Avoid") <=> Below(a, 3)
                /\ (shown[1] = "Think Again") <=> (AtLeast(a, 3) /\ Below(a, 4))

\* C10: the three counts of a card's sentiment breakdown add up to the
\* review_count of the card's summary.
C10_BreakdownSumsToReviewCount ==
    Rendered =>
        \A i \in 1..Len(cards) :
            cards[i].pos + cards[i].neu + cards[i].neg = filtered[i].review_count

====
